---- MODULE Spec2Model ----
(***************************************************************************)
(* A model of the Copilot session shim (utils/copilot-client), of the      *)
(* chat view's model partition (toto-chat.tsx) and of their callers.       *)
(*                                                                         *)
(* JavaScript runs one handler at a time: code between two `await`s is     *)
(* atomic.  Every action below is one such run-to-completion piece: the    *)
(* synchronous part of a call up to its first await, the continuation      *)
(* after an awaited vendor promise settles, or one event delivered to a    *)
(* session listener.  The vendor SDK is the environment: its promises      *)
(* settle with either outcome and it delivers events in any order.         *)
(***************************************************************************)
EXTENDS Integers, Sequences, FiniteSets, TLC

(* ---------------------------- bounds ----------------------------------- *)
\* concurrent async calls (getClient callers, create/resume, stop)
MaxTasks == 2
\* the same, while events are delivered too
MaxCalls == 1
\* vendor clients constructed over a run
MaxClients == 2
\* the same, while events are delivered too
MaxLifeClients == 1
\* session shims registered over a run
MaxSessions == 2
\* correlation identifiers minted over a run (a failed create mints one too)
MaxIds == MaxSessions
\* messages over all session lists, while clients and sessions come and go
MaxLifeMsgs == 1
\* messages of the list of one established session
MaxMsgs == 4
\* characters of one assistant message
MaxContent == 8
\* deltas delivered within one response window
MaxDeltas == 3
\* the same, while clients and sessions come and go
MaxLifeDeltas == 1
\* send-and-wait calls in flight on one session
MaxInFlight == 1
\* models in the chat view's list
MaxModels == 3

(* ---------------------------- values ----------------------------------- *)
\* null / undefined of a reference (clients, ids and list positions are >= 1)
Null == 0
\* deltaContent values the vendor may stream ("" is the empty/missing delta)
Deltas == {"", "Hi", " there"}
\* prompts a caller may send
Prompts == {"p", "q"}
\* the deltas and prompts used while clients and sessions come and go
LifeDeltas == {"Hi"}
LifePrompts == {"p"}
\* a missing number field (billing.multiplier undefined)
Missing == -1
\* billing.multiplier values
Multipliers == {Missing, 0, 1, 10}
\* billing.is_premium values
PremiumFlags == {"undefined", "true", "false"}
\* ModelInfo, as far as the partition reads it: model.billing may be missing
ModelInfos ==
    { [hasBilling |-> TRUE, is_premium |-> f, multiplier |-> m] :
        f \in PremiumFlags, m \in Multipliers }
    \cup { [hasBilling |-> FALSE, is_premium |-> "undefined", multiplier |-> Missing] }

Tasks == 1..MaxTasks

VARIABLES
    globalClient,      \* the module's client slot (Null or a client number)
    currentSessionId,  \* the module's current correlation identifier
    clientStarted,     \* the module's started flag
    nClients,          \* CopilotClient objects constructed so far
    stopInvoked,       \* clients whose stop() was called
    nIds,              \* correlation identifiers minted so far
    tasks,             \* the async calls in progress
    sessions,          \* the session shims, in order of registration
    availableModels,   \* ChatView state: the model list
    freeModels,        \* ChatView render: models not premium
    premiumModels,     \* ChatView render: premium models
    rendered,          \* ChatView: the partition was computed for the list
    view,              \* ChatView state and refs of the session effect
    files,             \* the paths that exist in the file system
    probe              \* the status probe call in progress

clientVars == <<globalClient, currentSessionId, clientStarted, nClients,
                stopInvoked, nIds, tasks>>
viewVars == <<availableModels, freeModels, premiumModels, rendered, view>>
probeVars == <<files, probe>>
vars == <<globalClient, currentSessionId, clientStarted, nClients,
          stopInvoked, nIds, tasks, sessions,
          availableModels, freeModels, premiumModels, rendered, view,
          files, probe>>

(* ------------------------- the session shim ---------------------------- *)
\* a task that runs nothing
IdleTask == [kind |-> "none", pc |-> "idle", sid |-> Null, client |-> Null,
             prev |-> Null]

\* toto-chat.tsx lines 62-71, ChatView before any effect ran: no session, no
\* error, initializing, models not loaded.  `mounted` is the effect run whose
\* `mounted` local is still true (line 133), `session` the handle in the
\* `session` state and in sessionRef (lines 149-150, set together);
\* `retried` and `discarded` remember that Retry was chosen and that a
\* message was dropped at lines 191-193
InitView ==
    [modelsLoaded |-> FALSE, mounted |-> Null, session |-> Null,
     error |-> FALSE, isInitializing |-> TRUE,
     retried |-> FALSE, discarded |-> FALSE]

\* a call that threw to its caller (which has not handled it yet)
Threw(task) == [IdleTask EXCEPT !.kind = task.kind, !.pc = "threw"]

\* onUpdate was never called
NoUpdate == [messages |-> <<>>, isLoading |-> FALSE]

\* the closure state setupSessionEventListeners and create/resume set up
NewShim(sid) ==
    [ sessionId |-> sid,
      messages |-> <<>>,
      isLoading |-> FALSE,
      currentAssistantMessage |-> Null,
      lastDeltaContent |-> "",
      idleProcessed |-> FALSE,
      handleIsLoading |-> FALSE,
      inFlight |-> <<>>,
      delivered |-> <<>>,
      sendThrew |-> FALSE,
      nUpdates |-> 0,
      lastUpdate |-> NoUpdate ]

\* onUpdate([...messages], loading): the callback sees a copy of the list
OnUpdate(sh, loading) ==
    [sh EXCEPT !.nUpdates = @ + 1,
               !.lastUpdate = [messages |-> sh.messages, isLoading |-> loading]]

(* ------------------------ the status probe's values -------------------- *)
Range(seq) == { seq[i] : i \in DOMAIN seq }

\* an optional field that is absent
Undefined == "undefined"
\* findExecutable's null
NoPath == "null"
\* part_002 lines 17-21 (homedir() written ~)
COPILOT_PATHS ==
    <<"/opt/homebrew/bin/copilot", "/usr/local/bin/copilot", "~/.local/bin/copilot">>
\* part_002 line 24
GH_PATHS == <<"/opt/homebrew/bin/gh", "/usr/local/bin/gh", "~/.local/bin/gh">>
\* part_002 line 105
copilotConfigPath == "~/.copilot/config.json"
\* the paths the probe asks existsSync about
Files == Range(COPILOT_PATHS) \cup Range(GH_PATHS) \cup {copilotConfigPath}

\* no result yet
NoResult == [kind |-> "none"]
\* a probe call: the operation and where it stands, the executables it
\* located, the install check's result, whether the login check was entered,
\* the subprocesses it started and what they settled with, and what the
\* caller gets
IdleProbe ==
    [ op |-> "none", pc |-> "idle",
      copilotPath |-> NoPath, ghPath |-> NoPath,
      install |-> NoResult,
      loginChecked |-> FALSE,
      spawned |-> <<>>,
      settled |-> <<>>,
      threw |-> FALSE,
      result |-> NoResult ]

Init ==
    /\ globalClient = Null
    /\ currentSessionId = Null
    /\ clientStarted = FALSE
    /\ nClients = 0
    /\ stopInvoked = {}
    /\ nIds = 0
    /\ tasks = [t \in Tasks |-> IdleTask]
    /\ sessions = <<>>
    /\ availableModels = <<>>
    /\ freeModels = <<>>
    /\ premiumModels = <<>>
    /\ rendered = FALSE
    /\ view = InitView
    /\ files = {}
    /\ probe = IdleProbe

(* --------------------------- getClient --------------------------------- *)
\* the same, when the slot is not looked at
NeedsConstructAlways(slot) == TRUE

\* line 51: if (!globalClient)
NeedsConstruct(slot) == slot = Null

\* line 70: if (!clientStarted)
NeedsStart(started) == ~started

\* what a caller does once `await getClient()` has produced `client`:
\* every caller in the module holds it in a local and then uses it
Received(task, client) == [task EXCEPT !.pc = "client", !.client = client]

\* calls are interchangeable: a new call takes the lowest free place
FreeTask(t) ==
    /\ tasks[t].pc = "idle"
    /\ \A u \in 1..(t - 1) : tasks[u].pc # "idle"

\* lines 50-71 (entered by fetchAvailableModels & co: kind "list"; by
\* createChatSession, line 241, and resumeChatSession, line 293: kind
\* "session"): the slot is checked and filled in one synchronous run; start()
\* is awaited only when the started flag is clear, otherwise the slot's client
\* is returned at once
GetClientEnter(t, kind) ==
    /\ FreeTask(t)
    /\ LET construct == NeedsConstruct(globalClient)
           slot == IF construct THEN nClients + 1 ELSE globalClient
           task == [IdleTask EXCEPT !.kind = kind]
       IN /\ globalClient' = slot
          /\ nClients' = IF construct THEN nClients + 1 ELSE nClients
          /\ tasks' = [tasks EXCEPT ![t] =
                IF NeedsStart(clientStarted)
                    THEN [task EXCEPT !.pc = "start"]
                    ELSE Received(task, slot)]
    /\ UNCHANGED <<currentSessionId, clientStarted, stopInvoked, nIds,
                   sessions, viewVars, probeVars>>

\* lines 71-75, start() resolved: set the flag, return what the slot holds now
StartOk(t) ==
    /\ tasks[t].pc = "start"
    /\ clientStarted' = TRUE
    /\ tasks' = [tasks EXCEPT ![t] = Received(@, globalClient)]
    /\ UNCHANGED <<globalClient, currentSessionId, nClients, stopInvoked,
                   nIds, sessions, viewVars, probeVars>>

\* the same, when a rejected start() is swallowed and the slot's client
\* returned all the same
StartFailSwallowed(t) ==
    /\ tasks[t].pc = "start"
    /\ tasks' = [tasks EXCEPT ![t] = Received(@, globalClient)]
    /\ UNCHANGED <<globalClient, currentSessionId, clientStarted, nClients,
                   stopInvoked, nIds, sessions, viewVars, probeVars>>

\* line 71, start() rejected: getClient and its caller throw
StartFail(t) ==
    /\ tasks[t].pc = "start"
    /\ tasks' = [tasks EXCEPT ![t] = Threw(@)]
    /\ UNCHANGED <<globalClient, currentSessionId, clientStarted, nClients,
                   stopInvoked, nIds, sessions, viewVars, probeVars>>

\* lines 93-122: the caller uses the client it received (listModels,
\* listSessions, deleteSession, getLastSessionId) and finishes; on a null
\* client the call throws
UseClient(t) ==
    /\ tasks[t].pc = "client"
    /\ tasks[t].kind = "list"
    /\ tasks' = [tasks EXCEPT ![t] =
            IF tasks[t].client = Null THEN Threw(@) ELSE IdleTask]
    /\ UNCHANGED <<globalClient, currentSessionId, clientStarted, nClients,
                   stopInvoked, nIds, sessions, viewVars, probeVars>>

(* --------------------------- stopClient -------------------------------- *)
\* lines 81-83 (through a handle's stop(), lines 280-282 and 326-328): with a
\* client in the slot its stop() is called and awaited
StopEnter(t, s) ==
    /\ FreeTask(t)
    /\ s \in 1..Len(sessions)
    /\ globalClient # Null
    /\ stopInvoked' = stopInvoked \cup {globalClient}
    /\ tasks' = [tasks EXCEPT ![t] = [IdleTask EXCEPT !.kind = "stop", !.pc = "stop"]]
    /\ UNCHANGED <<globalClient, currentSessionId, clientStarted, nClients,
                   nIds, sessions, viewVars, probeVars>>

\* line 82 false: with an empty slot stopClient returns at once
StopEmpty(t, s) ==
    /\ FreeTask(t)
    /\ s \in 1..Len(sessions)
    /\ globalClient = Null
    /\ UNCHANGED vars

\* the same, when the correlation identifier is left in place
StopOkKeepingSession(t) ==
    /\ tasks[t].pc = "stop"
    /\ globalClient' = Null
    /\ clientStarted' = FALSE
    /\ tasks' = [tasks EXCEPT ![t] = IdleTask]
    /\ UNCHANGED <<currentSessionId, nClients, stopInvoked, nIds, sessions, viewVars, probeVars>>

\* lines 84-86, the client's stop() resolved
StopOk(t) ==
    /\ tasks[t].pc = "stop"
    /\ globalClient' = Null
    /\ currentSessionId' = Null
    /\ clientStarted' = FALSE
    /\ tasks' = [tasks EXCEPT ![t] = IdleTask]
    /\ UNCHANGED <<nClients, stopInvoked, nIds, sessions, viewVars, probeVars>>

\* line 83, the client's stop() rejected: stopClient throws before line 84
StopFail(t) ==
    /\ tasks[t].pc = "stop"
    /\ tasks' = [tasks EXCEPT ![t] = Threw(@)]
    /\ UNCHANGED <<globalClient, currentSessionId, clientStarted, nClients,
                   stopInvoked, nIds, sessions, viewVars, probeVars>>

(* ---------------- createChatSession / resumeChatSession ---------------- *)
\* line 179, seen from outside: the identifier of the session whose events
\* are accepted now, Null when no handle carries the current identifier
ActiveId ==
    IF \E s \in 1..Len(sessions) : sessions[s].sessionId = currentSessionId
        THEN currentSessionId
        ELSE Null

\* lines 244-247 and 296-299: mint the correlation identifier, make it the
\* current one, then call createSession / resumeSession on the client
\* received; on a null client that call throws, after the assignment.  The
\* local `client` is not read again: the task lets go of it.  `prev` keeps
\* what line 179 accepted when the call overwrote it: the identifier of the
\* session that was active then
MintSession(t) ==
    /\ tasks[t].pc = "client"
    /\ tasks[t].kind = "session"
    /\ nIds' = nIds + 1
    /\ currentSessionId' = nIds + 1
    /\ tasks' = [tasks EXCEPT ![t] =
            IF tasks[t].client = Null
                THEN Threw(@)
                ELSE [@ EXCEPT !.pc = "session", !.sid = nIds + 1,
                               !.client = Null, !.prev = ActiveId]]
    /\ UNCHANGED <<globalClient, clientStarted, nClients, stopInvoked,
                   sessions, viewVars, probeVars>>

\* lines 252-283 and 301-329, the vendor session was produced: an empty
\* list, the listener with its closure state, the handle
SessionOk(t) ==
    /\ tasks[t].pc = "session"
    /\ sessions' = Append(sessions, NewShim(tasks[t].sid))
    /\ tasks' = [tasks EXCEPT ![t] = IdleTask]
    /\ UNCHANGED <<globalClient, currentSessionId, clientStarted, nClients,
                   stopInvoked, nIds, viewVars, probeVars>>

\* lines 247 and 299, the vendor call rejected: create/resume throws
SessionFail(t) ==
    /\ tasks[t].pc = "session"
    /\ tasks' = [tasks EXCEPT ![t] = Threw(@)]
    /\ UNCHANGED <<globalClient, currentSessionId, clientStarted, nClients,
                   stopInvoked, nIds, sessions, viewVars, probeVars>>

\* the caller's handler of a failed call (toto-chat.tsx lines 114-123 and
\* 154-165): it reports the failure and leaves the module's state alone
Caught(t) ==
    /\ tasks[t].pc = "threw"
    /\ tasks' = [tasks EXCEPT ![t] = IdleTask]
    /\ UNCHANGED <<globalClient, currentSessionId, clientStarted, nClients,
                   stopInvoked, nIds, sessions, viewVars, probeVars>>

(* ----------------------- messages and events --------------------------- *)
\* randomUUID() for a message: a token no other message carries, here the
\* owning shim's correlation identifier and the position the message takes
MessageId(sh) == <<sh.sessionId, Len(sh.messages) + 1>>

\* lines 266-271: the user message (isStreaming is left undefined: FALSE)
UserMessage(sh, prompt) ==
    [id |-> MessageId(sh), role |-> "user", content |-> prompt, isStreaming |-> FALSE]

\* lines 195-201: the assistant message a first delta creates
AssistantMessage(sh) ==
    [id |-> MessageId(sh), role |-> "assistant", content |-> "", isStreaming |-> TRUE]

\* the same, when the listener does not filter
IsStaleNever(current, sh) == FALSE

\* line 179: if (currentSessionId !== sessionId) return
IsStale(current, sh) == current # sh.sessionId

\* the same, when no repeat is recognised
IsDuplicateNever(sh, d) == FALSE

\* line 188: deltaContent === lastDeltaContent && currentAssistantMessage
IsDuplicate(sh, d) == d = sh.lastDeltaContent /\ sh.currentAssistantMessage # Null

\* the same, when the in-progress message is kept
resetStateKeepingMessage(sh) ==
    [sh EXCEPT !.lastDeltaContent = "",
               !.idleProcessed = FALSE,
               !.isLoading = TRUE]

\* lines 225-230: resetState
resetState(sh) ==
    [sh EXCEPT !.currentAssistantMessage = Null,
               !.lastDeltaContent = "",
               !.idleProcessed = FALSE,
               !.isLoading = TRUE]

\* the same, when a delta replaces the text of the message
OnDeltaOverwriting(sh, d) ==
    IF d = "" \/ IsDuplicate(sh, d)
    THEN sh
    ELSE LET created == IF sh.currentAssistantMessage = Null
                        THEN [sh EXCEPT !.messages = Append(@, AssistantMessage(sh)),
                                        !.currentAssistantMessage = Len(sh.messages) + 1]
                        ELSE sh
             cur == created.currentAssistantMessage
         IN OnUpdate([created EXCEPT !.lastDeltaContent = d,
                                     !.messages[cur].content = d],
                     sh.isLoading)

\* lines 181-207: the listener on an assistant.message_delta event.
\* currentAssistantMessage is a reference into the list: the list only grows
\* and keeps its order, so the position stands for the object
OnDelta(sh, d) ==
    IF d = "" \/ IsDuplicate(sh, d)
    THEN sh
    ELSE LET created == IF sh.currentAssistantMessage = Null
                        THEN [sh EXCEPT !.messages = Append(@, AssistantMessage(sh)),
                                        !.currentAssistantMessage = Len(sh.messages) + 1]
                        ELSE sh
             cur == created.currentAssistantMessage
         IN OnUpdate([created EXCEPT !.lastDeltaContent = d,
                                     !.messages[cur].content = @ \o d],
                     sh.isLoading)

\* the same, when the message is let go with its streaming flag set
OnIdleKeepingFlag(sh) ==
    IF sh.idleProcessed
    THEN sh
    ELSE OnUpdate([sh EXCEPT !.currentAssistantMessage = Null,
                             !.idleProcessed = TRUE,
                             !.isLoading = FALSE,
                             !.lastDeltaContent = ""],
                  FALSE)

\* the same, when every idle is processed
OnIdleUnlatched(sh) ==
    LET cur == sh.currentAssistantMessage
        closed == IF cur # Null
                  THEN [sh EXCEPT !.messages[cur].isStreaming = FALSE,
                                  !.currentAssistantMessage = Null]
                  ELSE sh
    IN OnUpdate([closed EXCEPT !.idleProcessed = TRUE,
                               !.isLoading = FALSE,
                               !.lastDeltaContent = ""],
                FALSE)

\* lines 209-221: the listener on a session.idle event
OnIdle(sh) ==
    IF sh.idleProcessed
    THEN sh
    ELSE LET cur == sh.currentAssistantMessage
             closed == IF cur # Null
                       THEN [sh EXCEPT !.messages[cur].isStreaming = FALSE,
                                       !.currentAssistantMessage = Null]
                       ELSE sh
         IN OnUpdate([closed EXCEPT !.idleProcessed = TRUE,
                                    !.isLoading = FALSE,
                                    !.lastDeltaContent = ""],
                     FALSE)

\* the same, when the callback is invoked before the user message is pushed
OnSendUpdatingFirst(sh, prompt) ==
    LET told == OnUpdate([sh EXCEPT !.handleIsLoading = TRUE], TRUE)
        pushed == [told EXCEPT !.messages = Append(@, UserMessage(told, prompt))]
    IN [resetState(pushed) EXCEPT !.inFlight = Append(@, prompt)]

\* the same, when the user message is not pushed before the vendor call
OnSendUnpushed(sh, prompt) ==
    LET told == OnUpdate(resetState([sh EXCEPT !.handleIsLoading = TRUE]), TRUE)
    IN [told EXCEPT !.inFlight = Append(@, prompt)]

\* lines 264-278 and 310-324: sendMessage up to the await of sendAndWait
OnSend(sh, prompt) ==
    LET pushed == [sh EXCEPT !.messages = Append(@, UserMessage(sh, prompt)),
                             !.handleIsLoading = TRUE]
        told == OnUpdate(resetState(pushed), TRUE)
    IN [told EXCEPT !.inFlight = Append(@, prompt)]

\* the vendor delivers a delta to the listener of shim s.  delivered records
\* the deltas that passed line 179 while a response is awaited (since the
\* last sendMessage, until its idle is processed)
Delta(s, d) ==
    /\ s \in 1..Len(sessions)
    /\ LET sh == sessions[s]
       IN IF IsStale(currentSessionId, sh)
          THEN UNCHANGED sessions
          ELSE sessions' = [sessions EXCEPT ![s] =
                    [OnDelta(sh, d) EXCEPT !.delivered =
                        IF sh.isLoading THEN Append(@, d) ELSE @]]
    /\ UNCHANGED <<clientVars, viewVars, probeVars>>

\* the vendor delivers session.idle to the listener of shim s
Idle(s) ==
    /\ s \in 1..Len(sessions)
    /\ LET sh == sessions[s]
       IN IF IsStale(currentSessionId, sh)
          THEN UNCHANGED sessions
          ELSE sessions' = [sessions EXCEPT ![s] = OnIdle(sh)]
    /\ UNCHANGED <<clientVars, viewVars, probeVars>>

\* a caller invokes sendMessage(prompt) on the handle of shim s
SendMessage(s, prompt) ==
    /\ s \in 1..Len(sessions)
    /\ sessions' = [sessions EXCEPT ![s] =
            [OnSend(sessions[s], prompt) EXCEPT !.delivered = <<>>,
                                                !.sendThrew = FALSE]]
    /\ UNCHANGED <<clientVars, viewVars, probeVars>>

\* Seq without its i-th element
RemoveAt(seq, i) == SubSeq(seq, 1, i - 1) \o SubSeq(seq, i + 1, Len(seq))

\* lines 278 and 324: a sendAndWait promise settles.  sendMessage has nothing
\* after the await and no catch: resolved, it returns; rejected, it throws to
\* its caller (sendThrew, until the caller's next sendMessage).  Either way
\* the rest of the shim's state is the same
SendSettle(s, i, ok) ==
    /\ s \in 1..Len(sessions)
    /\ i \in 1..Len(sessions[s].inFlight)
    /\ sessions' = [sessions EXCEPT ![s].inFlight = RemoveAt(@, i),
                                    ![s].sendThrew = ~ok]
    /\ UNCHANGED <<clientVars, viewVars, probeVars>>

(* ------------------------- the specification --------------------------- *)
RECURSIVE SumLen(_)
SumLen(shs) == IF shs = <<>> THEN 0 ELSE Len(Head(shs).messages) + SumLen(Tail(shs))

\* messages over all lists
TotalMsgs == SumLen(sessions)

\* the text the delta would be appended to
CurrentContent(sh) ==
    IF sh.currentAssistantMessage = Null THEN ""
    ELSE sh.messages[sh.currentAssistantMessage].content

\* the bounds of the model, on the steps that grow something
DeltaInBounds(s, d, maxMsgs, maxDeltas) ==
    LET sh == sessions[s]
    IN /\ (sh.isLoading => Len(sh.delivered) < maxDeltas)
       /\ Len(CurrentContent(sh)) + Len(d) <= MaxContent
       /\ (sh.currentAssistantMessage = Null => TotalMsgs < maxMsgs)

SendInBounds(s, maxMsgs) ==
    /\ TotalMsgs < maxMsgs
    /\ Len(sessions[s].inFlight) < MaxInFlight

\* createChatSession, resumeChatSession and stop, at most maxCalls of them in
\* progress at once
SessionCalls(maxCalls, maxClients) ==
    \/ \E t \in 1..maxCalls :
          /\ (NeedsConstruct(globalClient) => nClients < maxClients)
          /\ GetClientEnter(t, "session")
    \/ \E t \in 1..maxCalls : StartOk(t)
    \/ \E t \in 1..maxCalls : StartFail(t)
    \/ \E t \in 1..maxCalls, s \in 1..MaxSessions : StopEnter(t, s)
    \/ \E t \in 1..maxCalls, s \in 1..MaxSessions : StopEmpty(t, s)
    \/ \E t \in 1..maxCalls : StopOk(t)
    \/ \E t \in 1..maxCalls : StopFail(t)
    \/ \E t \in 1..maxCalls : nIds < MaxIds /\ MintSession(t)
    \/ \E t \in 1..maxCalls : Len(sessions) < MaxSessions /\ SessionOk(t)
    \/ \E t \in 1..maxCalls : SessionFail(t)
    \/ \E t \in 1..maxCalls : Caught(t)

\* the other callers of getClient (fetchAvailableModels, listSavedSessions,
\* deleteSavedSession, getLastSessionId)
ListCalls(maxCalls, maxClients) ==
    \/ \E t \in 1..maxCalls :
          /\ (NeedsConstruct(globalClient) => nClients < maxClients)
          /\ GetClientEnter(t, "list")
    \/ \E t \in 1..maxCalls : UseClient(t)

\* sendMessage calls on every handle, vendor events on every listener
EventSteps ==
    \/ \E s \in 1..MaxSessions, d \in LifeDeltas :
          /\ s <= Len(sessions)
          /\ DeltaInBounds(s, d, MaxLifeMsgs, MaxLifeDeltas)
          /\ Delta(s, d)
    \/ \E s \in 1..MaxSessions : Idle(s)
    \/ \E s \in 1..MaxSessions, p \in LifePrompts :
          /\ s <= Len(sessions)
          /\ SendInBounds(s, MaxLifeMsgs)
          /\ SendMessage(s, p)
    \/ \E s \in 1..MaxSessions, i \in 1..MaxInFlight, ok \in BOOLEAN : SendSettle(s, i, ok)

\* sessions are created, resumed and stopped, one call after the other, while
\* messages are sent and events reach every listener
Next == SessionCalls(MaxCalls, MaxLifeClients) \/ EventSteps

Spec == Init /\ [][Next]_vars

\* the calls alone, overlapping, with the other callers of getClient
NextCalls == SessionCalls(MaxTasks, MaxClients) \/ ListCalls(MaxTasks, MaxClients)

SpecCalls == Init /\ [][NextCalls]_vars

(* ------------------- one established session --------------------------- *)
\* the state once a first createChatSession / resumeChatSession has returned
\* its handle: the client constructed and started, the session's correlation
\* identifier current, its listener registered
StreamInit ==
    /\ globalClient = 1
    /\ currentSessionId = 1
    /\ clientStarted = TRUE
    /\ nClients = 1
    /\ stopInvoked = {}
    /\ nIds = 1
    /\ tasks = [t \in Tasks |-> IdleTask]
    /\ sessions = <<NewShim(1)>>
    /\ availableModels = <<>>
    /\ freeModels = <<>>
    /\ premiumModels = <<>>
    /\ rendered = FALSE
    /\ view = InitView
    /\ files = {}
    /\ probe = IdleProbe

\* sendMessage calls and vendor events on that session, in any order
NextStream ==
    \/ \E d \in Deltas : DeltaInBounds(1, d, MaxMsgs, MaxDeltas) /\ Delta(1, d)
    \/ Idle(1)
    \/ \E p \in Prompts : SendInBounds(1, MaxMsgs) /\ SendMessage(1, p)
    \/ \E i \in 1..MaxInFlight, ok \in BOOLEAN : SendSettle(1, i, ok)

SpecStream == StreamInit /\ [][NextStream]_vars

(* ------------------- the chat view's model partition ------------------- *)
\* the same, when the flag is ignored
isModelPremiumByMultiplier(model) ==
    (IF model.hasBilling /\ model.multiplier # Missing THEN model.multiplier ELSE 0) > 0

\* lines 128-137: isModelPremium
isModelPremium(model) ==
    IF model.hasBilling /\ model.is_premium # "undefined"
    THEN model.is_premium = "true"
    ELSE (IF model.hasBilling /\ model.multiplier # Missing THEN model.multiplier ELSE 0) > 0

IsFree(model) == ~isModelPremium(model)

\* toto-chat.tsx lines 74-87: the two models used when loading fails
FALLBACK_MODELS ==
    << [hasBilling |-> TRUE, is_premium |-> "undefined", multiplier |-> 1],
       [hasBilling |-> TRUE, is_premium |-> "undefined", multiplier |-> 10] >>

\* toto-chat.tsx lines 93-97: the enabled models the vendor listed
LoadModels(models) ==
    /\ models # <<>>
    /\ availableModels' = models
    /\ rendered' = FALSE
    /\ UNCHANGED <<clientVars, sessions, probeVars, freeModels, premiumModels,
                   view>>

\* toto-chat.tsx lines 98-100 and 114-117: none enabled, or the fetch failed
LoadFallback ==
    /\ availableModels = <<>>
    /\ availableModels' = FALLBACK_MODELS
    /\ rendered' = FALSE
    /\ UNCHANGED <<clientVars, sessions, probeVars, freeModels, premiumModels,
                   view>>

\* toto-chat.tsx lines 232-233: the render's partition of the list
Render ==
    /\ ~rendered
    /\ freeModels' = SelectSeq(availableModels, IsFree)
    /\ premiumModels' = SelectSeq(availableModels, isModelPremium)
    /\ rendered' = TRUE
    /\ UNCHANGED <<clientVars, sessions, probeVars, availableModels, view>>

NextModels ==
    \/ /\ availableModels = <<>>
       /\ \E n \in 1..MaxModels : \E models \in [1..n -> ModelInfos] : LoadModels(models)
    \/ LoadFallback
    \/ Render

SpecModels == Init /\ [][NextModels]_vars

(* ------------------- the chat view's session effect -------------------- *)
\* continuations that run before any further event is handled: a caller of
\* createChatSession whose `await getClient()` has returned goes on to line
\* 244, a rejection goes on to its catch
Urgent ==
    \E t \in Tasks :
        \/ tasks[t].kind = "session" /\ tasks[t].pc = "client"
        \/ tasks[t].pc = "threw"

\* the effect runs that have not reached line 244 yet
Unminted ==
    {t \in Tasks : tasks[t].kind = "session"
                   /\ tasks[t].pc \in {"initstop", "start", "client"}}

\* the lists loadModels may end with: the fallback, or what the vendor listed
ViewLists == {FALLBACK_MODELS} \cup {<<m>> : m \in {FALLBACK_MODELS[1]}}

\* toto-chat.tsx lines 93-101 and 114-117: fetchAvailableModels returned or
\* threw; the view has its list (the fallback after a failure) and
\* modelsLoaded is set
FetchSettled(t, models) ==
    /\ tasks[t].kind = "list"
    /\ tasks[t].pc \in {"client", "threw"}
    /\ (tasks[t].pc = "threw" \/ tasks[t].client = Null) => models = FALLBACK_MODELS
    /\ availableModels' = models
    /\ rendered' = FALSE
    /\ view' = [view EXCEPT !.modelsLoaded = TRUE]
    /\ tasks' = [tasks EXCEPT ![t] = IdleTask]
    /\ UNCHANGED <<globalClient, currentSessionId, clientStarted, nClients,
                   stopInvoked, nIds, sessions, freeModels, premiumModels,
                   probeVars>>

\* toto-chat.tsx lines 130-142 and 170-172, one run of the session effect:
\* the earlier run's `mounted` is cleared and this run's set, isInitializing
\* is set; with a handle in sessionRef its stop() is awaited (part_001 lines
\* 280-282 and 81-83: the client's stop() when the slot is filled, nothing
\* otherwise); then createChatSession enters getClient (lines 241, 50-71)
InitSession(t) ==
    /\ FreeTask(t)
    /\ view.modelsLoaded
    /\ LET stopping == view.session # Null /\ globalClient # Null
           construct == ~stopping /\ NeedsConstruct(globalClient)
           slot == IF construct THEN nClients + 1 ELSE globalClient
           task == [IdleTask EXCEPT !.kind = "session"]
       IN /\ view' = [view EXCEPT !.mounted = t, !.isInitializing = TRUE]
          /\ stopInvoked' = IF stopping THEN stopInvoked \cup {globalClient}
                                        ELSE stopInvoked
          /\ globalClient' = slot
          /\ nClients' = IF construct THEN nClients + 1 ELSE nClients
          /\ tasks' = [tasks EXCEPT ![t] =
                IF stopping THEN [task EXCEPT !.pc = "initstop"]
                ELSE IF NeedsStart(clientStarted) THEN [task EXCEPT !.pc = "start"]
                ELSE Received(task, slot)]
    /\ UNCHANGED <<currentSessionId, clientStarted, nIds, sessions,
                   availableModels, freeModels, premiumModels, rendered,
                   probeVars>>

\* the first run, when modelsLoaded has become true (line 131)
InitFirst(t) == view.mounted = Null /\ InitSession(t)

\* a later run, when selectedModel has changed (lines 104, 109, 177; deps at
\* line 173)
ModelChange(t) == view.mounted # Null /\ InitSession(t)

\* part_001 lines 84-86, then toto-chat.tsx line 142 and part_001 lines 241,
\* 50-71: the awaited stop() resolved; slot, identifier and flag are
\* cleared, and getClient constructs a client in the empty slot and awaits
\* its start()
InitStopOk(t) ==
    /\ tasks[t].pc = "initstop"
    /\ globalClient' = nClients + 1
    /\ nClients' = nClients + 1
    /\ currentSessionId' = Null
    /\ clientStarted' = FALSE
    /\ tasks' = [tasks EXCEPT ![t] = [@ EXCEPT !.pc = "start"]]
    /\ UNCHANGED <<stopInvoked, nIds, sessions, viewVars, probeVars>>

\* part_001 line 83 through toto-chat.tsx line 138: the awaited stop()
\* rejected.  The await is outside the try: initSession ends there, nothing
\* is caught, isInitializing stays set
InitStopFail(t) ==
    /\ tasks[t].pc = "initstop"
    /\ tasks' = [tasks EXCEPT ![t] = IdleTask]
    /\ UNCHANGED <<globalClient, currentSessionId, clientStarted, nClients,
                   stopInvoked, nIds, sessions, viewVars, probeVars>>

\* part_001 lines 252-283 and toto-chat.tsx lines 148-153: the vendor session
\* was produced; the run that is still mounted keeps the handle
InitSessionOk(t) ==
    /\ tasks[t].pc = "session"
    /\ sessions' = Append(sessions, NewShim(tasks[t].sid))
    /\ tasks' = [tasks EXCEPT ![t] = IdleTask]
    /\ view' = IF view.mounted = t
                  THEN [view EXCEPT !.session = Len(sessions) + 1,
                                    !.isInitializing = FALSE]
                  ELSE view
    /\ UNCHANGED <<globalClient, currentSessionId, clientStarted, nClients,
                   stopInvoked, nIds, availableModels, freeModels,
                   premiumModels, rendered, probeVars>>

\* toto-chat.tsx lines 154-165: createChatSession threw; the run that is
\* still mounted sets the error
InitCaught(t) ==
    /\ tasks[t].pc = "threw"
    /\ tasks[t].kind = "session"
    /\ tasks' = [tasks EXCEPT ![t] = IdleTask]
    /\ view' = IF view.mounted = t
                  THEN [view EXCEPT !.error = TRUE, !.isInitializing = FALSE]
                  ELSE view
    /\ UNCHANGED <<globalClient, currentSessionId, clientStarted, nClients,
                   stopInvoked, nIds, sessions, availableModels, freeModels,
                   premiumModels, rendered, probeVars>>

\* toto-chat.tsx lines 211-229: the error view's Retry action resets the
\* error (and the message list)
Retry ==
    /\ view.error
    /\ view' = [view EXCEPT !.error = FALSE, !.retried = TRUE]
    /\ UNCHANGED <<clientVars, sessions, availableModels, freeModels,
                   premiumModels, rendered, probeVars>>

\* toto-chat.tsx lines 189-193: a message submitted from the list while the
\* view has no session is dropped
SendDiscarded ==
    /\ ~view.error
    /\ view.modelsLoaded
    /\ view.session = Null
    /\ view' = [view EXCEPT !.discarded = TRUE]
    /\ UNCHANGED <<clientVars, sessions, availableModels, freeModels,
                   premiumModels, rendered, probeVars>>

\* what happens without the user: loadModels fetches the list once, the
\* session effect runs when the list is loaded, the vendor's promises settle
\* in any order and the continuations run
ViewSystem ==
    \/ \E t \in Tasks :
          /\ ~view.modelsLoaded
          /\ nClients = 0
          /\ GetClientEnter(t, "list")
    \/ \E t \in Tasks, models \in ViewLists : FetchSettled(t, models)
    \/ \E t \in Tasks : nIds < MaxIds /\ MintSession(t)
    \/ \E t \in Tasks : InitCaught(t)
    \/ \E t \in Tasks : ~Urgent /\ StartOk(t)
    \/ \E t \in Tasks : ~Urgent /\ StartFail(t)
    \/ \E t \in Tasks :
          /\ ~Urgent
          /\ nIds + Cardinality(Unminted) < MaxIds
          /\ (NeedsConstruct(globalClient) => nClients < MaxClients)
          /\ InitFirst(t)
    \/ \E t \in Tasks : ~Urgent /\ nClients < MaxClients /\ InitStopOk(t)
    \/ \E t \in Tasks : ~Urgent /\ InitStopFail(t)
    \/ \E t \in Tasks : ~Urgent /\ InitSessionOk(t)
    \/ \E t \in Tasks : ~Urgent /\ SessionFail(t)

\* what the user (or the saved preference, lines 102-111) does: change the
\* model, choose Retry in the error view, submit a message
ViewUser ==
    \/ \E t \in Tasks :
          /\ ~Urgent
          /\ nIds + Cardinality(Unminted) < MaxIds
          /\ (NeedsConstruct(globalClient) => nClients < MaxClients)
          /\ ModelChange(t)
    \/ ~Urgent /\ Retry
    \/ ~Urgent /\ SendDiscarded

\* the view from its mount on
NextView == ViewSystem \/ ViewUser

SpecView == Init /\ [][NextView]_vars

\* the same, when every step that needs no user is eventually taken: the
\* event loop runs pending effects and continuations, and the vendor settles
\* every promise
SpecViewLive == Init /\ [][NextView]_vars /\ WF_vars(ViewSystem)

(* =========================== the status probe ========================== *)
\* the same, when the last existing candidate is taken
RECURSIVE findExecutableLast(_, _)
findExecutableLast(paths, existing) ==
    IF paths = <<>> THEN NoPath
    ELSE LET later == findExecutableLast(Tail(paths), existing)
         IN IF later # NoPath THEN later
            ELSE IF Head(paths) \in existing THEN Head(paths) ELSE NoPath

\* part_002 lines 29-36: findExecutable, over the paths that exist now
RECURSIVE findExecutable(_, _)
findExecutable(paths, existing) ==
    IF paths = <<>> THEN NoPath
    ELSE IF Head(paths) \in existing THEN Head(paths)
    ELSE findExecutable(Tail(paths), existing)

\* the same, when the first candidate is taken unseen
getCopilotPathUnchecked(existing) == COPILOT_PATHS[1]

\* part_002 lines 41-43
getCopilotPath(existing) == findExecutable(COPILOT_PATHS, existing)
\* part_002 lines 48-50
getGhPath(existing) == findExecutable(GH_PATHS, existing)

\* String.prototype.trim: white space off both ends
IsSpace(c) == c \in {" ", "\n", "\t"}
RECURSIVE TrimStart(_)
TrimStart(str) ==
    IF str = "" THEN ""
    ELSE IF IsSpace(SubSeq(str, 1, 1)) THEN TrimStart(SubSeq(str, 2, Len(str)))
    ELSE str
RECURSIVE TrimEnd(_)
TrimEnd(str) ==
    IF str = "" THEN ""
    ELSE IF IsSpace(SubSeq(str, Len(str), Len(str)))
         THEN TrimEnd(SubSeq(str, 1, Len(str) - 1))
    ELSE str
Trim(str) == TrimEnd(TrimStart(str))

\* String.prototype.includes
Includes(str, part) ==
    \E i \in 1..(Len(str) - Len(part) + 1) : SubSeq(str, i, i + Len(part) - 1) = part

\* what execAsync can settle with: resolved with the two streams (exit code
\* zero), or rejected (non-zero exit, spawn error) with an Error or, for the
\* catch clauses' other branch, with a value that is no Error
Resolved(stdout, stderr) ==
    [ok |-> TRUE, stdout |-> stdout, stderr |-> stderr, isError |-> FALSE, message |-> Undefined]
Rejected(isError, message) ==
    [ok |-> FALSE, stdout |-> "", stderr |-> "", isError |-> isError, message |-> message]
Rejections ==
    { Rejected(TRUE, "Command failed: exit code 1"),
      Rejected(TRUE, "spawn /bin/sh ENOENT"),
      Rejected(FALSE, Undefined) }
\* settlements of `copilot --version`
VersionOutcomes ==
    { Resolved(out, "") : out \in {"1.0.0\n", " 0.0.9", ""} } \cup Rejections
\* the check mark of line 121, in ASCII
CheckMark == "[v]"
\* settlements of `gh auth status` (gh writes its report to either stream)
AuthOutcomes ==
    { Resolved("", "[v] Logged in to github.com\n"),
      Resolved("[v] token ok\n", ""),
      Resolved("Logged in\n", ""),
      Resolved("You are not logged into any GitHub hosts\n", ""),
      Resolved("", "") } \cup Rejections

\* error instanceof Error ? error.message : fallback
ErrorMessage(outcome, fallback) == IF outcome.isError THEN outcome.message ELSE fallback

\* a rejection that no catch clause converted
Thrown(outcome) == [kind |-> "thrown", error |-> outcome]

\* part_002 lines 77-82
InstallNotFound ==
    [kind |-> "install", installed |-> FALSE, version |-> Undefined,
     error |-> "Copilot CLI not found in common locations"]

\* the same, when the subprocess error is not caught
InstallResultUncaught(outcome) ==
    IF outcome.ok
    THEN [kind |-> "install", installed |-> TRUE, version |-> Trim(outcome.stdout),
          error |-> Undefined]
    ELSE Thrown(outcome)

\* part_002 lines 84-93: the result of the install check once the version
\* subprocess has settled
InstallResult(outcome) ==
    IF outcome.ok
    THEN [kind |-> "install", installed |-> TRUE, version |-> Trim(outcome.stdout),
          error |-> Undefined]
    ELSE [kind |-> "install", installed |-> FALSE, version |-> Undefined,
          error |-> ErrorMessage(outcome, "Unknown error")]

\* part_002 lines 103-113: no gh executable, the config file decides
LoginWithoutGh(existing) ==
    IF copilotConfigPath \in existing
    THEN [kind |-> "login", loggedIn |-> TRUE, error |-> Undefined]
    ELSE [kind |-> "login", loggedIn |-> FALSE, error |-> "GitHub CLI (gh) not found"]

\* the same, when only a recognised marker counts as logged in
LoginResultStrict(outcome) ==
    IF outcome.ok
    THEN LET output == outcome.stdout \o outcome.stderr
         IN IF Includes(output, "Logged in") \/ Includes(output, CheckMark)
            THEN [kind |-> "login", loggedIn |-> TRUE, error |-> Undefined]
            ELSE [kind |-> "login", loggedIn |-> FALSE, error |-> "Not logged in to GitHub"]
    ELSE [kind |-> "login", loggedIn |-> FALSE,
          error |-> ErrorMessage(outcome, "Not logged in to GitHub")]

\* part_002 lines 115-133: the result of the login check once the auth
\* subprocess has settled
LoginResult(outcome) ==
    IF outcome.ok
    THEN LET output == outcome.stdout \o outcome.stderr
         IN IF Includes(output, "Logged in") \/ Includes(output, CheckMark)
            THEN [kind |-> "login", loggedIn |-> TRUE, error |-> Undefined]
            ELSE [kind |-> "login", loggedIn |-> TRUE, error |-> Undefined]
    ELSE [kind |-> "login", loggedIn |-> FALSE,
          error |-> ErrorMessage(outcome, "Not logged in to GitHub")]

\* the same, when the login check is made whatever the install check said
ShortCircuitsNever(install) == FALSE

\* part_002 line 142: if (!installStatus.installed)
ShortCircuits(install) == ~install.installed

\* part_002 lines 143-147
NotInstalledStatus(install) ==
    [kind |-> "status", isInstalled |-> FALSE, isLoggedIn |-> FALSE,
     version |-> Undefined, error |-> install.error]

\* part_002 lines 152-157
StatusResult(install, login) ==
    [kind |-> "status", isInstalled |-> TRUE, isLoggedIn |-> login.loggedIn,
     version |-> install.version, error |-> login.error]

\* a probe call ends: with a result, or by throwing what reached it
Finish(pr, result) ==
    IF result.kind = "thrown"
    THEN [pr EXCEPT !.pc = "done", !.threw = TRUE]
    ELSE [pr EXCEPT !.pc = "done", !.result = result]

\* the login check produced `login` (part_002 lines 150-157 for getStatus)
AfterLogin(pr, login) ==
    IF login.kind = "thrown" \/ pr.op = "checkLoggedIn"
    THEN Finish(pr, login)
    ELSE Finish(pr, StatusResult(pr.install, login))

\* part_002 lines 100-117: isCopilotLoggedIn up to its await, or to its
\* return when no gh executable exists
EnterLogin(pr, existing) ==
    LET ghPath == getGhPath(existing)
        entered == [pr EXCEPT !.loginChecked = TRUE, !.ghPath = ghPath]
    IN IF ghPath = NoPath
       THEN AfterLogin(entered, LoginWithoutGh(existing))
       ELSE [entered EXCEPT !.pc = "auth",
                            !.spawned = Append(@, [path |-> ghPath, args |-> "auth status"])]

\* the install check produced `install` (part_002 lines 140-150 for getStatus)
AfterInstall(pr, install, existing) ==
    LET kept == [pr EXCEPT !.install = install]
    IN IF install.kind = "thrown" \/ pr.op = "checkInstalled"
       THEN Finish(kept, install)
       ELSE IF ShortCircuits(install)
            THEN Finish(kept, NotInstalledStatus(install))
            ELSE EnterLogin(kept, existing)

\* part_002 lines 74-85 (called directly, or by getCopilotStatus, line 140):
\* isCopilotCliInstalled up to its await, or to its return when no copilot
\* executable exists
InstallEnter(op) ==
    /\ probe.pc = "idle"
    /\ LET path == getCopilotPath(files)
           entered == [IdleProbe EXCEPT !.op = op, !.copilotPath = path]
       IN probe' =
            IF path = NoPath
            THEN AfterInstall(entered, InstallNotFound, files)
            ELSE [entered EXCEPT !.pc = "version",
                                 !.spawned = Append(@, [path |-> path, args |-> "--version"])]
    /\ UNCHANGED <<clientVars, sessions, viewVars, files>>

\* part_002 lines 85-93, then lines 142-157 for getStatus: the version
\* subprocess settled
VersionSettle(outcome) ==
    /\ probe.pc = "version"
    /\ probe' = AfterInstall([probe EXCEPT !.settled = Append(@, outcome)],
                              InstallResult(outcome), files)
    /\ UNCHANGED <<clientVars, sessions, viewVars, files>>

\* part_002 lines 100-117: isCopilotLoggedIn called directly
LoginEnter ==
    /\ probe.pc = "idle"
    /\ probe' = EnterLogin([IdleProbe EXCEPT !.op = "checkLoggedIn"], files)
    /\ UNCHANGED <<clientVars, sessions, viewVars, files>>

\* part_002 lines 117-133, then lines 152-157 for getStatus: the auth
\* subprocess settled
AuthSettle(outcome) ==
    /\ probe.pc = "auth"
    /\ probe' = AfterLogin([probe EXCEPT !.settled = Append(@, outcome)],
                            LoginResult(outcome))
    /\ UNCHANGED <<clientVars, sessions, viewVars, files>>

\* the caller has the result (or the exception) of the call
ProbeReturn ==
    /\ probe.pc = "done"
    /\ probe' = IdleProbe
    /\ UNCHANGED <<clientVars, sessions, viewVars, files>>

\* the file system changes under the probe: a path appears or disappears
Touch(f) ==
    /\ files' = IF f \in files THEN files \ {f} ELSE files \cup {f}
    /\ UNCHANGED <<clientVars, sessions, viewVars, probe>>

NextProbe ==
    \/ \E op \in {"checkInstalled", "getStatus"} : InstallEnter(op)
    \/ \E outcome \in VersionOutcomes : VersionSettle(outcome)
    \/ LoginEnter
    \/ \E outcome \in AuthOutcomes : AuthSettle(outcome)
    \/ ProbeReturn
    \/ \E f \in Files : Touch(f)

SpecProbe == Init /\ [][NextProbe]_vars


(* ============================ properties =============================== *)

\* a model whose billing carries the multiplier and no premium flag
Unflagged(m) == [hasBilling |-> TRUE, is_premium |-> "undefined", multiplier |-> m]

\* C9: models with billing multipliers [1, 1, 10] and no explicit premium
\* flag are partitioned into exactly two free models and one premium model
C9_TwoFreeOnePremium ==
    (rendered /\ availableModels = <<Unflagged(1), Unflagged(1), Unflagged(10)>>)
        => (Len(freeModels) = 2 /\ Len(premiumModels) = 1)

\* C10: a model whose billing carries an explicit premium flag is premium
\* exactly when the flag is true, whatever its multiplier (or its absence)
C10_FlagOverridesMultiplier ==
    rendered =>
        \A i \in DOMAIN availableModels :
            LET m == availableModels[i]
            IN (m.hasBilling /\ m.is_premium # "undefined") =>
                 /\ isModelPremium(m) = (m.is_premium = "true")
                 /\ (m \in Range(premiumModels)) = (m.is_premium = "true")
                 /\ (m \in Range(freeModels)) = (m.is_premium = "false")

\* C10 witness: a rendered list in which a flag-false model with multiplier 10
\* is free and a flag-true model with multiplier 0 is premium
C10_Witness ==
    /\ rendered
    /\ [hasBilling |-> TRUE, is_premium |-> "false", multiplier |-> 10] \in Range(freeModels)
    /\ [hasBilling |-> TRUE, is_premium |-> "true", multiplier |-> 0] \in Range(premiumModels)

(* ------------------------- one session's list -------------------------- *)
\* the position of the last user message of a list (0: none)
LastUser(msgs) ==
    LET users == { i \in DOMAIN msgs : msgs[i].role = "user" }
    IN IF users = {} THEN 0 ELSE CHOOSE i \in users : \A j \in users : j <= i

\* the deltas of a delivery sequence that count: not empty, and not equal to
\* the delta kept just before
RECURSIVE KeptAfter(_, _)
KeptAfter(ds, last) ==
    IF ds = <<>> THEN <<>>
    ELSE IF Head(ds) = "" \/ Head(ds) = last
         THEN KeptAfter(Tail(ds), last)
         ELSE <<Head(ds)>> \o KeptAfter(Tail(ds), Head(ds))

RECURSIVE Concat(_)
Concat(ds) == IF ds = <<>> THEN "" ELSE Head(ds) \o Concat(Tail(ds))

\* the text a response's deltas should add up to
Expected(ds) == Concat(KeptAfter(ds, ""))

\* C1: the assistant message of a response holds the deltas delivered since
\* its sendMessage, each empty delta and each immediate repeat of the
\* preceding accepted delta left out; with nothing accepted yet there is no
\* assistant message after the user message
C1_DuplicateDeltasOnce ==
    \A s \in DOMAIN sessions :
        LET sh == sessions[s]
            u == LastUser(sh.messages)
            want == Expected(sh.delivered)
        IN u > 0 =>
            IF want = ""
            THEN sh.isLoading => Len(sh.messages) = u
            ELSE /\ Len(sh.messages) > u
                 /\ sh.messages[u + 1].role = "assistant"
                 /\ sh.messages[u + 1].content = want

\* C1 witness: "Hi", "Hi", " there" were delivered after a sendMessage, the
\* idle was processed, and the response reads "Hi there"
C1_Witness ==
    \E s \in DOMAIN sessions :
        LET sh == sessions[s]
            u == LastUser(sh.messages)
        IN /\ u > 0
           /\ sh.delivered = <<"Hi", "Hi", " there">>
           /\ ~sh.isLoading
           /\ Len(sh.messages) > u
           /\ sh.messages[u + 1].content = "Hi there"

\* the messages of a list whose streaming flag is set
Streaming(msgs) == { i \in DOMAIN msgs : msgs[i].isStreaming }

\* C2: at most one message of a session's list has its streaming flag set
C2_AtMostOneStreaming ==
    \A s \in DOMAIN sessions : Cardinality(Streaming(sessions[s].messages)) <= 1

\* C4: a session.idle delivered while the latch is set changes nothing of the
\* shim (no message, not the loading flag, no update callback), and the latch
\* is cleared only by a step that appends a user message (a sendMessage)
C4_IdleOnlyOnce ==
    [][\A s \in DOMAIN sessions :
          LET sh == sessions[s]
          IN sh.idleProcessed =>
               /\ (Idle(s) => sessions'[s] = sh)
               /\ (~sessions'[s].idleProcessed =>
                      /\ Len(sessions'[s].messages) = Len(sh.messages) + 1
                      /\ sessions'[s].messages[Len(sh.messages) + 1].role = "user")
      ]_vars

\* C4 witness: a response was finalised by its idle and the latch is set, so
\* the next idle in a row meets the latch
C4_Witness ==
    \E s \in DOMAIN sessions :
        LET sh == sessions[s]
            u == LastUser(sh.messages)
        IN /\ u > 0
           /\ sh.idleProcessed
           /\ ~sh.isLoading
           /\ sh.nUpdates >= 3
           /\ Len(sh.messages) = u + 1
           /\ ~sh.messages[u + 1].isStreaming

\* C5: the step that issues a send-and-wait call for a prompt appends exactly
\* one user message with that prompt; a user message is appended by no other
\* step; and the settling of the call, whatever its outcome, leaves the list
\* as it is
C5_OneUserMessagePerSend ==
    [][\A s \in DOMAIN sessions :
          LET sh == sessions[s]
              sh2 == sessions'[s]
              n == Len(sh.messages)
          IN /\ Len(sh2.inFlight) > Len(sh.inFlight) =>
                  /\ Len(sh2.inFlight) = Len(sh.inFlight) + 1
                  /\ Len(sh2.messages) = n + 1
                  /\ SubSeq(sh2.messages, 1, n) = sh.messages
                  /\ sh2.messages[n + 1].role = "user"
                  /\ sh2.messages[n + 1].content = sh2.inFlight[Len(sh2.inFlight)]
             /\ (Len(sh2.messages) > n /\ sh2.messages[Len(sh2.messages)].role = "user") =>
                  Len(sh2.inFlight) > Len(sh.inFlight)
             /\ Len(sh2.inFlight) < Len(sh.inFlight) => sh2.messages = sh.messages
      ]_vars

\* C5 witness: two sendMessage calls were made and settled, and the list
\* holds their two user messages
C5_Witness ==
    \E s \in DOMAIN sessions :
        LET sh == sessions[s]
        IN /\ sh.inFlight = <<>>
           /\ Len(sh.messages) = 2
           /\ sh.messages[1].role = "user" /\ sh.messages[1].content = "p"
           /\ sh.messages[2].role = "user" /\ sh.messages[2].content = "q"

\* C6: no step changes the content of a message that stands before the last
\* user message of its list, and an assistant message is only ever added at
\* the end of the list
C6_SendClosesAssistantMessage ==
    [][\A s \in DOMAIN sessions :
          LET msgs == sessions[s].messages
              msgs2 == sessions'[s].messages
          IN /\ Len(msgs2) >= Len(msgs)
             /\ \A i \in 1..LastUser(msgs) : msgs2[i].content = msgs[i].content
             /\ \A i \in 1..Len(msgs) : msgs2[i].role = msgs[i].role
      ]_vars

\* C6 witness: a response was streamed, a second sendMessage followed, and a
\* later delta went to a new assistant message after the second user message
C6_Witness ==
    \E s \in DOMAIN sessions :
        LET msgs == sessions[s].messages
        IN /\ Len(msgs) = 4
           /\ msgs[1].role = "user" /\ msgs[2].role = "assistant"
           /\ msgs[3].role = "user" /\ msgs[4].role = "assistant"
           /\ msgs[2].content = "Hi"
           /\ msgs[4].content = "Hi there"

(* ---------------------- clients, sessions, events ---------------------- *)
\* the session shim s is not the active one
NotCurrent(s) == sessions[s].sessionId # currentSessionId

\* C3: a delta or idle event delivered to the listener of a shim whose
\* correlation identifier is not the current one changes no session's state:
\* no message list and no count of update callbacks
C3_StaleEventsDropped ==
    [][\/ sessions' = sessions
       \/ \A s \in DOMAIN sessions :
             ~(NotCurrent(s) /\ (Idle(s) \/ \E d \in Deltas : Delta(s, d)))
      ]_vars

\* C3 witness: a shim with a message in progress was replaced by a later
\* session, which is the current one
C3_Witness ==
    \E s, s2 \in DOMAIN sessions :
        /\ NotCurrent(s)
        /\ sessions[s].currentAssistantMessage # Null
        /\ ~NotCurrent(s2)

\* the tasks that hold the client getClient returned to them
Holding == { t \in Tasks : tasks[t].pc = "client" }

\* C7: a client is constructed only into an empty slot, the slot is emptied
\* only by a completing stop, and as long as no stop was called one client at
\* most was constructed and every caller of getClient has received it
C7_OneClient ==
    /\ [](stopInvoked = {} =>
            /\ nClients <= 1
            /\ \A t \in Holding : tasks[t].client = 1 /\ globalClient = 1)
    /\ [][nClients' # nClients =>
            /\ globalClient = Null
            /\ nClients' = nClients + 1
            /\ globalClient' = nClients']_vars
    /\ [][(globalClient # Null /\ globalClient' # globalClient) =>
            /\ globalClient' = Null
            /\ \E t \in Tasks : tasks[t].pc = "stop" /\ tasks'[t].pc = "idle"]_vars

\* C7 witness: two callers entered before the first start had completed; one
\* has received the client, the other still awaits start(), one client exists
C7_Witness ==
    \E t, u \in Tasks :
        /\ tasks[t].pc = "client" /\ tasks[t].client = 1
        /\ tasks[u].pc = "start"
        /\ clientStarted
        /\ nClients = 1
        /\ stopInvoked = {}

\* C8: a stop() that completes leaves the slot empty, the started flag and
\* the current correlation identifier cleared; a correlation identifier that
\* is not the current one never becomes current again, so every session's
\* events are stale from then on; and with an empty slot no client's stop()
\* is called and no caller is suspended in stop
C8_StopTearsDownAll ==
    /\ [][\A t \in Tasks :
            (tasks[t].pc = "stop" /\ tasks'[t].pc = "idle") =>
                /\ globalClient' = Null
                /\ ~clientStarted'
                /\ currentSessionId' = Null
                /\ \A s \in DOMAIN sessions' : sessions'[s].sessionId # currentSessionId']_vars
    /\ [][\A i \in 1..nIds : i # currentSessionId => i # currentSessionId']_vars
    /\ [][globalClient = Null =>
            /\ stopInvoked' = stopInvoked
            /\ \A t \in Tasks : tasks'[t].pc = "stop" => tasks[t].pc = "stop"]_vars

\* C8 witness: two sessions shared the client, stop() has completed, and
\* neither session is the current one
C8_Witness ==
    /\ Len(sessions) = 2
    /\ stopInvoked # {}
    /\ globalClient = Null
    /\ ~clientStarted
    /\ currentSessionId = Null
    /\ \A t \in Tasks : tasks[t].pc = "idle"

(* --------------------------- the status probe -------------------------- *)
\* the subprocesses of the call in progress that ran `args`
Spawned(args) == { i \in DOMAIN probe.spawned : probe.spawned[i].args = args }

\* C11: in a getStatus whose install check failed (no executable found, or
\* the version subprocess erred) the login check is never entered and no
\* auth subprocess is started, and the call has returned isInstalled false
\* and isLoggedIn false with the install check's error
C11_NoLoginCheckWhenNotInstalled ==
    (probe.op = "getStatus" /\ probe.install.kind = "install" /\ ~probe.install.installed)
        => /\ ~probe.loginChecked
           /\ Spawned("auth status") = {}
           /\ probe.ghPath = NoPath
           /\ probe.pc = "done"
           /\ ~probe.threw
           /\ probe.result = [kind |-> "status", isInstalled |-> FALSE,
                              isLoggedIn |-> FALSE, version |-> Undefined,
                              error |-> probe.install.error]

\* C11 witness: getStatus found the executable, its version subprocess
\* exited non-zero, and the call has returned with that error
C11_Witness ==
    /\ probe.op = "getStatus"
    /\ probe.pc = "done"
    /\ probe.copilotPath # NoPath
    /\ Len(probe.settled) = 1
    /\ ~probe.settled[1].ok
    /\ probe.result.kind = "status"
    /\ probe.result.error = "Command failed: exit code 1"

\* C12: a checkInstalled entered while no candidate path exists returns at
\* once, not installed, with an error message and without a subprocess; and
\* every version subprocess is started on a candidate path that existed when
\* it was started
C12_NoSubprocessWithoutExecutable ==
    [][/\ (probe.pc = "idle" /\ probe'.op = "checkInstalled"
              /\ Range(COPILOT_PATHS) \cap files = {})
          => /\ probe'.pc = "done"
             /\ probe'.spawned = <<>>
             /\ ~probe'.threw
             /\ probe'.result.kind = "install"
             /\ ~probe'.result.installed
             /\ probe'.result.error \notin {Undefined, ""}
       /\ Len(probe'.spawned) > Len(probe.spawned)
          => LET new == probe'.spawned[Len(probe'.spawned)]
             IN new.args = "--version" => new.path \in Range(COPILOT_PATHS) \cap files
      ]_vars

\* C12 witness: checkInstalled has returned not installed without having
\* started a subprocess
C12_Witness ==
    /\ probe.op = "checkInstalled"
    /\ probe.pc = "done"
    /\ probe.spawned = <<>>
    /\ probe.result = InstallNotFound

\* a result's error field holds a message
HasMessage(result) == result.error \notin {Undefined, ""}

\* C13: no probe call throws; a call that has returned gives a result of its
\* kind with boolean outcomes, and a negative outcome comes with an error
\* message, in particular when a subprocess of the call erred
C13_ProbesNeverThrow ==
    /\ ~probe.threw
    /\ probe.pc = "done" =>
         LET r == probe.result
         IN CASE probe.op = "checkInstalled" ->
                    /\ r.kind = "install"
                    /\ r.installed \in BOOLEAN
                    /\ ~r.installed => HasMessage(r)
              [] probe.op = "checkLoggedIn" ->
                    /\ r.kind = "login"
                    /\ r.loggedIn \in BOOLEAN
                    /\ ~r.loggedIn => HasMessage(r)
              [] OTHER ->
                    /\ r.kind = "status"
                    /\ r.isInstalled \in BOOLEAN
                    /\ r.isLoggedIn \in BOOLEAN
                    /\ (~r.isInstalled \/ ~r.isLoggedIn) => HasMessage(r)
                    /\ (\E i \in DOMAIN probe.settled : ~probe.settled[i].ok)
                          => (~r.isLoggedIn /\ HasMessage(r))

\* C13 witness: getStatus ran both subprocesses, the auth subprocess could
\* not be spawned, and the call has returned installed, not logged in, with
\* the spawn error's message
C13_Witness ==
    /\ probe.op = "getStatus"
    /\ probe.pc = "done"
    /\ Len(probe.settled) = 2
    /\ probe.result.kind = "status"
    /\ probe.result.isInstalled
    /\ ~probe.result.isLoggedIn
    /\ probe.result.error = "spawn /bin/sh ENOENT"

\* C14: a login check that located the gh executable reports logged in
\* exactly when its auth subprocess settled without error, whatever the
\* subprocess wrote
C14_LoggedInIffAuthSucceeds ==
    (probe.pc = "done" /\ probe.ghPath # NoPath) =>
        LET auth == probe.settled[Len(probe.settled)]
        IN IF probe.op = "checkLoggedIn"
           THEN probe.result.loggedIn = auth.ok
           ELSE probe.result.isLoggedIn = auth.ok

\* C14 witness: the auth subprocess exited zero with an output that carries
\* no marker, and checkLoggedIn has returned logged in
C14_Witness ==
    /\ probe.op = "checkLoggedIn"
    /\ probe.pc = "done"
    /\ probe.ghPath # NoPath
    /\ probe.settled = <<Resolved("You are not logged into any GitHub hosts\n", "")>>
    /\ probe.result.loggedIn

\* the first of `paths`, in their order, that is in `existing`
FirstExisting(paths, existing) ==
    LET hits == { i \in DOMAIN paths : paths[i] \in existing }
    IN IF hits = {} THEN NoPath
       ELSE paths[CHOOSE i \in hits : \A j \in hits : i <= j]

\* C20: each time a probe locates an executable it gets the first candidate
\* of the fixed list that exists at that moment, and not-found exactly when
\* none exists, whatever earlier calls found
C20_LocateFirstExisting ==
    [][/\ (probe.pc = "idle" /\ probe'.op \in {"checkInstalled", "getStatus"})
          => probe'.copilotPath = FirstExisting(COPILOT_PATHS, files)
       /\ (~probe.loginChecked /\ probe'.loginChecked)
          => probe'.ghPath = FirstExisting(GH_PATHS, files)
      ]_vars

\* C20 witness: with the second and third candidates present and the first
\* not, the second was located
C20_Witness ==
    /\ probe.pc = "version"
    /\ files = {COPILOT_PATHS[2], COPILOT_PATHS[3]}
    /\ probe.copilotPath = COPILOT_PATHS[2]

(* ------------------------- vendor calls and failures ------------------- *)
\* C15: within one shim call a vendor start() is awaited only on entry, a
\* vendor create/resume only with the client getClient returned, and one
\* sendMessage issues one send-and-wait; a call leaves the await of start()
\* with the started client or by throwing, the await of create/resume with a
\* registered session or by throwing; and a rejected start(), create/resume
\* or send-and-wait makes the shim call throw to its caller
C15_NoRetryNoSwallow ==
    [][/\ \A t \in Tasks :
            LET pc == tasks[t].pc
                pc2 == tasks'[t].pc
            IN \/ pc2 = pc
               \/ /\ (pc2 = "start" /\ pc # "start") => pc = "idle"
                  /\ (pc2 = "session" /\ pc # "session") => pc = "client"
                  /\ (pc = "start" /\ pc2 # "start")
                        => \/ pc2 = "client" /\ clientStarted'
                           \/ pc2 = "threw"
                  /\ (pc = "session" /\ pc2 # "session")
                        => \/ pc2 = "idle" /\ Len(sessions') = Len(sessions) + 1
                           \/ pc2 = "threw"
                  /\ StartFail(t) => pc2 = "threw"
                  /\ SessionFail(t) => pc2 = "threw"
       /\ \A s \in DOMAIN sessions :
            \/ sessions'[s].inFlight = sessions[s].inFlight
            \/ /\ Len(sessions'[s].inFlight) <= Len(sessions[s].inFlight) + 1
               /\ \A i \in DOMAIN sessions[s].inFlight :
                     \/ sessions'[s].sendThrew
                     \/ Len(sessions'[s].inFlight) >= Len(sessions[s].inFlight)
                     \/ ~SendSettle(s, i, FALSE)
      ]_vars

\* C15 witness: a sendMessage has thrown to its caller after its
\* send-and-wait was rejected, and a later create/resume call has thrown too
C15_Witness ==
    /\ \E s \in DOMAIN sessions :
          sessions[s].sendThrew /\ sessions[s].inFlight = <<>>
    /\ \E t \in Tasks : tasks[t].pc = "threw" /\ tasks[t].kind = "session"

(* --------------------------- the message list -------------------------- *)
\* `longer` is `shorter` with something added at its end
Grown(shorter, longer) ==
    /\ Len(longer) > Len(shorter)
    /\ SubSeq(longer, 1, Len(shorter)) = shorter

\* C16: no step shortens a session's list; every message keeps its place,
\* identifier and role; a user message never changes; and a message changes
\* only while it is the in-progress assistant message, by its content
\* growing at the end or by its streaming flag being cleared
C16_ListAppendOnly ==
    [][\A s \in DOMAIN sessions :
          LET sh == sessions[s]
              msgs == sh.messages
              msgs2 == sessions'[s].messages
          IN /\ Len(msgs2) >= Len(msgs)
             /\ \A i \in DOMAIN msgs :
                  /\ msgs2[i].id = msgs[i].id
                  /\ msgs2[i].role = msgs[i].role
                  /\ msgs[i].role = "user" => msgs2[i] = msgs[i]
                  /\ msgs2[i] # msgs[i] =>
                        /\ i = sh.currentAssistantMessage
                        /\ \/ /\ Grown(msgs[i].content, msgs2[i].content)
                              /\ msgs2[i].isStreaming = msgs[i].isStreaming
                           \/ /\ msgs2[i].content = msgs[i].content
                              /\ msgs[i].isStreaming /\ ~msgs2[i].isStreaming
      ]_vars

\* C16 witness: an assistant message grew over two deltas and was finalised,
\* and the next user message stands after it
C16_Witness ==
    \E s \in DOMAIN sessions :
        LET msgs == sessions[s].messages
        IN /\ Len(msgs) = 3
           /\ msgs[1].role = "user"
           /\ msgs[2].role = "assistant" /\ msgs[2].content = "Hi there"
           /\ ~msgs[2].isStreaming
           /\ msgs[3].role = "user"

(* --------------------------- the update callback ----------------------- *)
\* C17: every update callback made for an accepted delta carries loading
\* true
C17_DeltaUpdatesCarryLoading ==
    [][\A s \in DOMAIN sessions :
          ((\E d \in Deltas : Delta(s, d))
              /\ sessions'[s].nUpdates > sessions[s].nUpdates)
            => sessions'[s].lastUpdate.isLoading
      ]_vars

C19_SendUpdatesOnce ==
    [][\A s \in DOMAIN sessions :
          LET sh == sessions[s]
              sh2 == sessions'[s]
              n == Len(sh2.lastUpdate.messages)
          IN /\ Len(sh2.inFlight) > Len(sh.inFlight) =>
                  /\ sh2.nUpdates = sh.nUpdates + 1
                  /\ sh2.lastUpdate.isLoading
                  /\ sh2.lastUpdate.messages = sh2.messages
                  /\ n = Len(sh.messages) + 1
                  /\ sh2.lastUpdate.messages[n].role = "user"
                  /\ sh2.lastUpdate.messages[n].content = sh2.inFlight[Len(sh2.inFlight)]
                  /\ sh2.lastDeltaContent = ""
                  /\ sh2.currentAssistantMessage = Null
                  /\ ~sh2.idleProcessed
                  /\ sh2.isLoading
             /\ Len(sh2.inFlight) < Len(sh.inFlight) => sh2.nUpdates = sh.nUpdates
      ]_vars

\* C19 witness: a second sendMessage was made while the first response was
\* still streaming; its callback got the three messages with loading true
C19_Witness ==
    \E s \in DOMAIN sessions :
        LET sh == sessions[s]
        IN /\ sh.inFlight = <<"q">>
           /\ Len(sh.messages) = 3
           /\ sh.messages[2].role = "assistant" /\ sh.messages[2].isStreaming
           /\ sh.messages[3].role = "user" /\ sh.messages[3].content = "q"
           /\ sh.lastUpdate = [messages |-> sh.messages, isLoading |-> TRUE]
           /\ sh.currentAssistantMessage = Null
           /\ sh.nUpdates = 3

(* --------------------- overlapping stops and starts -------------------- *)
\* C21: every client constructed so far is the one in the slot or has had
\* its stop() called, and a step that empties the slot empties it of a
\* client whose stop() was called
C21_NoOrphanClient ==
    /\ [](\A c \in 1..nClients : c = globalClient \/ c \in stopInvoked)
    /\ [][(globalClient # Null /\ globalClient' = Null)
            => globalClient \in stopInvoked]_vars

\* the getClient callers whose start() call (line 71) is pending
Starting == {t \in Tasks : tasks[t].pc = "start"}

\* C24: start() is called at most once on a client between its construction
\* and its stop. While no stop() has been called only one client exists
\* (the slot is never emptied), so every pending start() is a call on that
\* client: at most one is pending
C24_StartAtMostOnce == stopInvoked = {} => Cardinality(Starting) <= 1

\* C23: a createSession / resumeSession call that rejects, when the call's
\* own identifier is still the current one and a session was active when the
\* call began, leaves that session's events accepted at line 179
C23_FailedCallKeepsRouting ==
    [][\A t \in Tasks :
          (SessionFail(t) /\ currentSessionId = tasks[t].sid
                          /\ tasks[t].prev # Null)
              => \A s \in 1..Len(sessions) :
                    sessions[s].sessionId = tasks[t].prev
                        => ~IsStale(currentSessionId', sessions'[s])]_vars

(* ---------------------- the view's session effect ---------------------- *)
\* every call has returned or thrown and been handled
Settled == \A t \in Tasks : tasks[t].pc = "idle"

\* C22: once every initialisation has settled and the mounted one has given
\* the view its handle (no error, not initializing), that handle's
\* correlation identifier is the current one: line 179 accepts its events
C22_ViewHandleIsCurrent ==
    (Settled /\ view.session # Null /\ ~view.isInitializing
             /\ ~view.error /\ ~view.retried)
        => ~IsStale(currentSessionId, sessions[view.session])

\* C25: after initialisation failed and Retry was chosen, the view
\* eventually holds a session handle
C25_RetryEstablishesSession == view.retried ~> (view.session # Null)

====
